---- MODULE Spec2Model ----
(***************************************************************************)
(* Model of the Pomodoro timer of src/src/main.rs: the controller fields   *)
(* (state, mode, timer, last_tick) and Application::update, one action per *)
(* PomodoroMessage.  Durations and instants are counted in units of        *)
(* 1/TicksPerSec second, so that sub-second remainders exist.              *)
(***************************************************************************)
EXTENDS Integers, Naturals, Sequences, FiniteSets, TLC

\* Resolution of Duration/Instant in the model: units per second.
TicksPerSec == 2

\* Number of messages delivered in one explored run.
MaxEvents == 5

\* Two tick periods to compare, in clock units, and the length of the
\* compared runs: clock units and user messages.
FinePeriod == 1
CoarsePeriod == 2
MaxClock == 5
MaxUserEvents == 3

\* Duration::from_secs
from_secs(s) == s * TicksPerSec

\* Duration::as_secs: whole seconds, truncating
as_secs(t) == t \div TicksPerSec

WORK == from_secs(25 * 60)
SHORT_BREAK == from_secs(5 * 60)
LONG_BREAK == from_secs(15 * 60)

Modes == {"Work", "LongBreak", "ShortBreak"}
States == {"Idle", "Paused", "Running"}

\* the `match self.mode { ... }` of Start, SwitchMode and Reset
Canonical(m) ==
  CASE m = "Work" -> WORK
    [] m = "ShortBreak" -> SHORT_BREAK
    [] m = "LongBreak" -> LONG_BREAK

\* Wall-clock time that may pass between two deliveries to update().
Elapsed ==
  {0, 1, from_secs(10), from_secs(500), from_secs(1500) - 1}

\* variant: plain subtraction, no saturation at zero
CheckedSubOrDefault_NoSaturation(t, delta) == t - delta

\* Duration::checked_sub(delta).unwrap_or_default()
CheckedSubOrDefault(t, delta) == IF delta <= t THEN t - delta ELSE 0

\* variant of update: a Tick takes a fixed amount off, whatever time has elapsed
update_FixedDecrement(self, message, t) ==
  CASE message.kind = "Start" ->
         [self EXCEPT !.timer = Canonical(self.mode), !.last_tick = t,
                      !.state = "Running"]
    [] message.kind = "Resume" ->
         [self EXCEPT !.last_tick = t, !.state = "Running"]
    [] message.kind = "SwitchMode" ->
         [self EXCEPT !.state = "Idle", !.mode = message.mode,
                      !.timer = Canonical(message.mode)]
    [] message.kind = "Pause" ->
         [self EXCEPT !.state = "Paused"]
    [] message.kind = "Reset" ->
         [self EXCEPT !.state = "Idle", !.timer = Canonical(self.mode)]
    [] message.kind = "Tick" ->
         IF self.state = "Running"
           THEN LET left == CheckedSubOrDefault(self.timer, 1)
                IN  [self EXCEPT !.last_tick = t, !.timer = left,
                                 !.state = IF as_secs(left) = 0 THEN "Idle" ELSE @]
           ELSE self

\* Pomodoro::update as a function of the controller, the message and the
\* value of Instant::now()
update(self, message, t) ==
  CASE message.kind = "Start" ->
         [self EXCEPT !.timer = Canonical(self.mode), !.last_tick = t,
                      !.state = "Running"]
    [] message.kind = "Resume" ->
         [self EXCEPT !.last_tick = t, !.state = "Running"]
    [] message.kind = "SwitchMode" ->
         [self EXCEPT !.state = "Idle", !.mode = message.mode,
                      !.timer = Canonical(message.mode)]
    [] message.kind = "Pause" ->
         [self EXCEPT !.state = "Paused"]
    [] message.kind = "Reset" ->
         [self EXCEPT !.state = "Idle", !.timer = Canonical(self.mode)]
    [] message.kind = "Tick" ->
         IF self.state = "Running"
           THEN LET delta == t - self.last_tick
                    left == CheckedSubOrDefault(self.timer, delta)
                IN  [self EXCEPT !.last_tick = t, !.timer = left,
                                 !.state = IF as_secs(left) = 0 THEN "Idle" ELSE @]
           ELSE self

\* Pomodoro::subscription of a controller: is the Tick subscription live
subscribed(self) ==
  CASE self.state = "Idle" -> FALSE
    [] self.state = "Paused" -> FALSE
    [] self.state = "Running" -> TRUE

VARIABLES
  state,      \* Pomodoro.state
  mode,       \* Pomodoro.mode
  timer,      \* Pomodoro.timer
  last_tick,  \* Pomodoro.last_tick
  now,        \* the monotonic clock read by Instant::now()
  msg,        \* the message update() was last called with
  pre,        \* the controller before that call, and the message before it
  nevents,    \* number of messages delivered so far
  run_start,  \* the clock at the Start of the countdown under way; -1 when
              \* there is none or a Pause, Reset or SwitchMode came after it
  expired_before, \* pre is Idle by expiry, with no Start/Reset/SwitchMode since
  \* two controllers that get the same user messages at the same instants,
  \* each with a Tick subscription of its own period
  clock,      \* the monotonic clock both read
  fine,       \* the controller ticked every FinePeriod
  coarse,     \* the controller ticked every CoarsePeriod
  fine_sub,   \* its subscription: when the next Tick is due (-1: not live),
              \* and the instant of its last Tick if no message came after it
  coarse_sub, \* the same for the coarse controller
  reloaded,   \* no Pause or Resume since the last Start, Reset or SwitchMode
  nuser       \* number of user messages given to the pair

ctrl_vars == <<state, mode, timer, last_tick, now, msg, pre, nevents,
               run_start, expired_before>>

pair_vars == <<clock, fine, coarse, fine_sub, coarse_sub, reloaded, nuser>>

vars == <<state, mode, timer, last_tick, now, msg, pre, nevents,
          run_start, expired_before,
          clock, fine, coarse, fine_sub, coarse_sub, reloaded, nuser>>

\* the fields of struct Pomodoro
Self == [state |-> state, mode |-> mode, timer |-> timer, last_tick |-> last_tick]

\* Pomodoro::new as a value, created at instant t
new(t) ==
  [state |-> "Idle", mode |-> "Work", timer |-> from_secs(25 * 60), last_tick |-> t]

NoSubscription == [due |-> -1, ticked_at |-> -1]

\* both controllers of the pair freshly created
PairInit ==
  /\ clock = 0
  /\ fine = new(0)
  /\ coarse = new(0)
  /\ fine_sub = NoSubscription
  /\ coarse_sub = NoSubscription
  /\ reloaded = TRUE
  /\ nuser = 0

\* Pomodoro::new
ControllerInit ==
  /\ state = "Idle"
  /\ mode = "Work"
  /\ timer = from_secs(25 * 60)
  /\ last_tick = 0
  /\ now = 0
  /\ msg = [kind |-> "None"]
  /\ pre = [state |-> "Idle", mode |-> "Work", timer |-> from_secs(25 * 60),
            last_tick |-> 0, msg |-> [kind |-> "None"]]
  /\ nevents = 0
  /\ run_start = -1
  /\ expired_before = FALSE

Init == ControllerInit /\ PairInit

\* The last message was the Tick that ended a countdown (Running to Idle).
JustExpired == msg.kind = "Tick" /\ pre.state = "Running" /\ state = "Idle"

\* The controller is Idle by expiry and nothing has reloaded the timer since.
Expired ==
  IF msg.kind \in {"Start", "Reset", "SwitchMode"} THEN FALSE
  ELSE IF JustExpired THEN TRUE
  ELSE expired_before

\* The host delivers message m after d units of wall-clock time.
Deliver(m, d) ==
  /\ nevents' = nevents + 1
  /\ now' = now + d
  /\ msg' = m
  /\ pre' = [state |-> state, mode |-> mode, timer |-> timer,
             last_tick |-> last_tick, msg |-> msg]
  /\ run_start' =
       IF m.kind = "Start" THEN now'
       ELSE IF m.kind \in {"Pause", "Reset", "SwitchMode"} THEN -1
       ELSE run_start
  /\ expired_before' = Expired
  /\ UNCHANGED pair_vars

\* variant: Start continues the countdown as Resume does
Start_KeepsTimer(d) ==
  /\ Deliver([kind |-> "Start"], d)
  /\ last_tick' = now'
  /\ state' = "Running"
  /\ UNCHANGED <<mode, timer>>

Start(d) ==
  /\ Deliver([kind |-> "Start"], d)
  /\ timer' = Canonical(mode)
  /\ last_tick' = now'
  /\ state' = "Running"
  /\ UNCHANGED mode

\* variant: Resume reloads the canonical duration as Start does
Resume_Restarts(d) ==
  /\ Deliver([kind |-> "Resume"], d)
  /\ timer' = Canonical(mode)
  /\ last_tick' = now'
  /\ state' = "Running"
  /\ UNCHANGED mode

\* variant: Resume does not refresh the tick timestamp
Resume_KeepsLastTick(d) ==
  /\ Deliver([kind |-> "Resume"], d)
  /\ state' = "Running"
  /\ UNCHANGED <<mode, timer, last_tick>>

Resume(d) ==
  /\ Deliver([kind |-> "Resume"], d)
  /\ last_tick' = now'
  /\ state' = "Running"
  /\ UNCHANGED <<mode, timer>>

\* variant: SwitchMode leaves the run state alone
SwitchMode_KeepsRunState(m, d) ==
  /\ Deliver([kind |-> "SwitchMode", mode |-> m], d)
  /\ mode' = m
  /\ timer' = Canonical(mode')
  /\ UNCHANGED <<state, last_tick>>

SwitchMode(m, d) ==
  /\ Deliver([kind |-> "SwitchMode", mode |-> m], d)
  /\ state' = "Idle"
  /\ mode' = m
  /\ timer' = Canonical(mode')
  /\ UNCHANGED last_tick

\* variant: Pause first takes the time since the last tick off the timer
Pause_Accounting(d) ==
  /\ Deliver([kind |-> "Pause"], d)
  /\ state' = "Paused"
  /\ timer' = IF state = "Running"
                THEN CheckedSubOrDefault(timer, now' - last_tick) ELSE timer
  /\ last_tick' = IF state = "Running" THEN now' ELSE last_tick
  /\ UNCHANGED mode

\* variant: Pause toggles between Paused and Running
Pause_Toggle(d) ==
  /\ Deliver([kind |-> "Pause"], d)
  /\ state' = IF state = "Paused" THEN "Running" ELSE "Paused"
  /\ UNCHANGED <<mode, timer, last_tick>>

Pause(d) ==
  /\ Deliver([kind |-> "Pause"], d)
  /\ state' = "Paused"
  /\ UNCHANGED <<mode, timer, last_tick>>

\* variant: Reset always loads the Work duration
Reset_ToWork(d) ==
  /\ Deliver([kind |-> "Reset"], d)
  /\ state' = "Idle"
  /\ timer' = WORK
  /\ UNCHANGED <<mode, last_tick>>

Reset(d) ==
  /\ Deliver([kind |-> "Reset"], d)
  /\ state' = "Idle"
  /\ timer' = Canonical(mode)
  /\ UNCHANGED <<mode, last_tick>>

\* variant: Tick counts down in every state but Idle
Tick_Unguarded(d) ==
  /\ Deliver([kind |-> "Tick"], d)
  /\ IF state # "Idle"
       THEN /\ last_tick' = now'
            /\ timer' = CheckedSubOrDefault(timer, now' - last_tick)
            /\ state' = IF as_secs(timer') = 0 THEN "Idle" ELSE state
       ELSE UNCHANGED <<state, timer, last_tick>>
  /\ UNCHANGED mode

\* variant: Tick does not store the new timestamp
Tick_StaleLastTick(d) ==
  /\ Deliver([kind |-> "Tick"], d)
  /\ IF state = "Running"
       THEN /\ timer' = CheckedSubOrDefault(timer, now' - last_tick)
            /\ state' = IF as_secs(timer') = 0 THEN "Idle" ELSE state
            /\ UNCHANGED last_tick
       ELSE UNCHANGED <<state, timer, last_tick>>
  /\ UNCHANGED mode

\* variant: Tick takes a fixed amount off, whatever time has elapsed
Tick_FixedDecrement(d) ==
  /\ Deliver([kind |-> "Tick"], d)
  /\ IF state = "Running"
       THEN /\ last_tick' = now'
            /\ timer' = CheckedSubOrDefault(timer, 1)
            /\ state' = IF as_secs(timer') = 0 THEN "Idle" ELSE state
       ELSE UNCHANGED <<state, timer, last_tick>>
  /\ UNCHANGED mode

\* variant: Tick ends the countdown only when the duration is exactly zero
Tick_ExpiresAtZero(d) ==
  /\ Deliver([kind |-> "Tick"], d)
  /\ IF state = "Running"
       THEN /\ last_tick' = now'
            /\ timer' = CheckedSubOrDefault(timer, now' - last_tick)
            /\ state' = IF timer' = 0 THEN "Idle" ELSE state
       ELSE UNCHANGED <<state, timer, last_tick>>
  /\ UNCHANGED mode

\* variant: Tick ends the countdown one second early
Tick_ExpiresEarly(d) ==
  /\ Deliver([kind |-> "Tick"], d)
  /\ IF state = "Running"
       THEN /\ last_tick' = now'
            /\ timer' = CheckedSubOrDefault(timer, now' - last_tick)
            /\ state' = IF as_secs(timer') <= 1 THEN "Idle" ELSE state
       ELSE UNCHANGED <<state, timer, last_tick>>
  /\ UNCHANGED mode

Tick(d) ==
  /\ Deliver([kind |-> "Tick"], d)
  /\ IF state = "Running"
       THEN /\ last_tick' = now'
            /\ timer' = CheckedSubOrDefault(timer, now' - last_tick)
            /\ state' = IF as_secs(timer') = 0 THEN "Idle" ELSE state
       ELSE UNCHANGED <<state, timer, last_tick>>
  /\ UNCHANGED mode

----------------------------------------------------------------------------
\* Pomodoro::subscription and Pomodoro::view

\* variant: the tick subscription stays live while Paused
subscription_LiveWhilePaused ==
  CASE state = "Idle" -> "none"
    [] state = "Paused" -> "Tick"
    [] state = "Running" -> "Tick"

\* the message the subscription produces, "none" for Subscription::none()
subscription ==
  CASE state = "Idle" -> "none"
    [] state = "Paused" -> "none"
    [] state = "Running" -> "Tick"

\* variant: the Idle and Running arms of the button are exchanged
start_or_pause_or_resume_button_Swapped ==
  CASE state = "Idle" -> [label |-> "Pause", on_press |-> "Pause"]
    [] state = "Paused" -> [label |-> "Resume", on_press |-> "Resume"]
    [] state = "Running" -> [label |-> "Start", on_press |-> "Start"]

start_or_pause_or_resume_button ==
  CASE state = "Idle" -> [label |-> "Start", on_press |-> "Start"]
    [] state = "Paused" -> [label |-> "Resume", on_press |-> "Resume"]
    [] state = "Running" -> [label |-> "Pause", on_press |-> "Pause"]

HOUR == 60 * 60
MINUTE == 60

DigitChars == <<"0", "1", "2", "3", "4", "5", "6", "7", "8", "9">>

\* Display of an unsigned integer: its decimal digits, most significant first
RECURSIVE to_string(_)
to_string(n) ==
  IF n < 10 THEN <<DigitChars[n + 1]>>
  ELSE to_string(n \div 10) \o <<DigitChars[(n % 10) + 1]>>

\* the format spec {:0>2}: right-aligned, filled with '0' to width 2
pad2(n) ==
  LET digits == to_string(n)
  IN  IF Len(digits) < 2 THEN <<"0">> \o digits ELSE digits

\* variant: the minutes are taken modulo MINUTE instead of HOUR
view_minutes_ModMinute(seconds) == (seconds % MINUTE) \div MINUTE

view_minutes(seconds) == (seconds % HOUR) \div MINUTE
view_seconds(seconds) == seconds % MINUTE

\* the text of the timer widget for a remaining duration t
timer_text(t) ==
  LET seconds == as_secs(t)
  IN  pad2(view_minutes(seconds)) \o <<":">> \o pad2(view_seconds(seconds))

----------------------------------------------------------------------------
\* An explored run delivers at most MaxEvents messages.
Budget == nevents < MaxEvents

\* The controller alone: update() called with any message in any state.
Next ==
  \/ \E d \in Elapsed : Budget /\ Start(d)
  \/ \E d \in Elapsed : Budget /\ Resume(d)
  \/ \E m \in Modes, d \in Elapsed : Budget /\ SwitchMode(m, d)
  \/ \E d \in Elapsed : Budget /\ Pause(d)
  \/ \E d \in Elapsed : Budget /\ Reset(d)
  \/ \E d \in Elapsed : Budget /\ Tick(d)

Spec == Init /\ [][Next]_vars

\* The application: messages come only from the widgets of view() and from
\* the subscription.
ShellNext ==
  \/ \E d \in Elapsed :
       Budget /\ start_or_pause_or_resume_button.on_press = "Start" /\ Start(d)
  \/ \E d \in Elapsed :
       Budget /\ start_or_pause_or_resume_button.on_press = "Resume" /\ Resume(d)
  \/ \E d \in Elapsed :
       Budget /\ start_or_pause_or_resume_button.on_press = "Pause" /\ Pause(d)
  \/ \E m \in Modes, d \in Elapsed : Budget /\ SwitchMode(m, d)
  \/ \E d \in Elapsed : Budget /\ Reset(d)
  \/ \E d \in Elapsed : Budget /\ subscription = "Tick" /\ Tick(d)

SpecShell == Init /\ [][ShellNext]_vars

\* Spacing of the Ticks of a countdown that is left alone: the resolution of
\* the clock, and a delivery that is late by minutes.
TickSpacing == {1, from_secs(500)}

\* A countdown left alone: while Idle the user may pick a mode and press
\* Start; once Running, only the subscription delivers messages, each Tick a
\* positive time after the previous delivery.
CountdownTick == \E d \in TickSpacing : subscription = "Tick" /\ Tick(d)

CountdownNext ==
  \/ \E m \in Modes : Budget /\ state = "Idle" /\ SwitchMode(m, 0)
  \/ Budget /\ start_or_pause_or_resume_button.on_press = "Start" /\ Start(0)
  \/ CountdownTick

\* time::every keeps producing Ticks for as long as the subscription is live
SpecCountdown == Init /\ [][CountdownNext]_vars /\ WF_vars(CountdownTick)

----------------------------------------------------------------------------
\* Two controllers with Tick subscriptions of different periods

\* What is left of a countdown that both controllers have ticked down
\* together before the compared run begins.
LateRemaining == from_secs(2)

\* both controllers at a common Tick instant late in an uninterrupted countdown
LatePairInit ==
  /\ clock = 0
  /\ \E m \in Modes :
       /\ fine = [state |-> "Running", mode |-> m, timer |-> LateRemaining, last_tick |-> 0]
       /\ coarse = fine
  /\ fine_sub = [due |-> FinePeriod, ticked_at |-> 0]
  /\ coarse_sub = [due |-> CoarsePeriod, ticked_at |-> 0]
  /\ reloaded = TRUE
  /\ nuser = 0

CadenceInit == ControllerInit /\ (PairInit \/ LatePairInit)

UserMessages ==
  {[kind |-> k] : k \in {"Start", "Pause", "Resume", "Reset"}}
    \cup {[kind |-> "SwitchMode", mode |-> m] : m \in Modes}

\* The subscription after a user message: dropped when the controller is not
\* Running, created (first Tick one period later) when it has become Running,
\* kept when it was Running before and after.
Resubscribe(before, after, sub, period) ==
  IF ~subscribed(after) THEN NoSubscription
  ELSE IF ~subscribed(before) THEN [due |-> clock + period, ticked_at |-> -1]
  ELSE [sub EXCEPT !.ticked_at = -1]

\* The subscription after its Tick at this instant was handled.
Reschedule(after, period) ==
  [due |-> IF subscribed(after) THEN clock + period ELSE -1, ticked_at |-> clock]

\* the same user message reaches both controllers at this instant
PairUser(m) ==
  /\ nuser < MaxUserEvents
  /\ nuser' = nuser + 1
  /\ fine' = update(fine, m, clock)
  /\ coarse' = update(coarse, m, clock)
  /\ fine_sub' = Resubscribe(fine, fine', fine_sub, FinePeriod)
  /\ coarse_sub' = Resubscribe(coarse, coarse', coarse_sub, CoarsePeriod)
  /\ reloaded' = (m.kind \in {"Start", "Reset", "SwitchMode"})
  /\ UNCHANGED <<clock, ctrl_vars>>

FineTick ==
  /\ subscribed(fine)
  /\ fine_sub.due = clock
  /\ fine' = update(fine, [kind |-> "Tick"], clock)
  /\ fine_sub' = Reschedule(fine', FinePeriod)
  /\ UNCHANGED <<clock, coarse, coarse_sub, reloaded, nuser, ctrl_vars>>

CoarseTick ==
  /\ subscribed(coarse)
  /\ coarse_sub.due = clock
  /\ coarse' = update(coarse, [kind |-> "Tick"], clock)
  /\ coarse_sub' = Reschedule(coarse', CoarsePeriod)
  /\ UNCHANGED <<clock, fine, fine_sub, reloaded, nuser, ctrl_vars>>

\* time passes, once the Ticks due at this instant have been delivered
PairAdvance ==
  /\ clock < MaxClock
  /\ ~(subscribed(fine) /\ fine_sub.due = clock)
  /\ ~(subscribed(coarse) /\ coarse_sub.due = clock)
  /\ clock' = clock + 1
  /\ UNCHANGED <<fine, coarse, fine_sub, coarse_sub, reloaded, nuser, ctrl_vars>>

CadenceNext ==
  \/ \E m \in UserMessages : PairUser(m)
  \/ FineTick
  \/ CoarseTick
  \/ PairAdvance

SpecCadence == CadenceInit /\ [][CadenceNext]_vars

TypeOK ==
  /\ state \in States
  /\ mode \in Modes
  /\ timer \in Int
  /\ last_tick \in Nat
  /\ now \in Nat

----------------------------------------------------------------------------
\* The message just handled, the state it was applied in and the wall-clock
\* time between the previous tick timestamp and this delivery.
Handled(k) == msg.kind = k
SinceLastTick == now - pre.last_tick

\* C1: after any sequence of events remaining is within
\* [0, canonical_duration(current mode)].
C1_RemainingInRange == 0 <= timer /\ timer <= Canonical(mode)

\* a Tick that had to saturate: more time elapsed than was remaining
C1_Witness ==
  /\ Handled("Tick")
  /\ pre.state = "Running"
  /\ SinceLastTick > pre.timer
  /\ pre.timer > 0
  /\ timer = 0

\* C2: Start in any run state yields Running, the canonical duration of the
\* mode, last_tick = now, and leaves mode unchanged.
C2_StartRestarts ==
  Handled("Start") =>
    /\ state = "Running"
    /\ timer = Canonical(pre.mode)
    /\ last_tick = now
    /\ mode = pre.mode

\* Start applied to a paused, partly elapsed countdown
C2_Witness ==
  /\ Handled("Start")
  /\ pre.state = "Paused"
  /\ 0 < pre.timer
  /\ pre.timer < Canonical(pre.mode)
  /\ timer = Canonical(mode)

\* C3: SwitchMode(m) in any state yields mode = m, the canonical duration of
\* m and Idle.
C3_SwitchModeResets ==
  Handled("SwitchMode") =>
    /\ mode = msg.mode
    /\ timer = Canonical(msg.mode)
    /\ state = "Idle"

\* the scenario: SwitchMode(ShortBreak) while Running with 1000s remaining
C3_Witness ==
  /\ Handled("SwitchMode")
  /\ msg.mode = "ShortBreak"
  /\ pre.state = "Running"
  /\ pre.timer = from_secs(1000)
  /\ mode = "ShortBreak"
  /\ timer = from_secs(300)
  /\ state = "Idle"

\* C4: Reset in any state yields Idle and the canonical duration of the mode,
\* and leaves mode unchanged.
C4_ResetToCanonical ==
  Handled("Reset") =>
    /\ state = "Idle"
    /\ timer = Canonical(pre.mode)
    /\ mode = pre.mode

\* Reset of a countdown that was under way in a mode other than Work
C4_Witness ==
  /\ Handled("Reset")
  /\ pre.state # "Idle"
  /\ pre.mode # "Work"
  /\ pre.timer < Canonical(pre.mode)
  /\ timer = Canonical(mode)

\* C5: a Tick while Idle or Paused changes none of mode, run state, remaining
\* and last_tick, whatever time has elapsed.
C5_TickNoOpUnlessRunning ==
  (Handled("Tick") /\ pre.state # "Running") =>
    /\ state = pre.state
    /\ mode = pre.mode
    /\ timer = pre.timer
    /\ last_tick = pre.last_tick

\* a stale Tick that arrives, after time has passed, at a paused countdown
C5_Witness ==
  /\ Handled("Tick")
  /\ pre.state = "Paused"
  /\ SinceLastTick > 0
  /\ pre.timer > 0
  /\ state = "Paused"

\* C6: a Tick while Running with d = now - last_tick sets remaining to
\* max(0, remaining - d), sets last_tick = now and leaves mode unchanged.
C6_TickDecrement ==
  (Handled("Tick") /\ pre.state = "Running") =>
    /\ \/ pre.timer - SinceLastTick >= 0 /\ timer = pre.timer - SinceLastTick
       \/ pre.timer - SinceLastTick < 0 /\ timer = 0
    /\ last_tick = now
    /\ mode = pre.mode

\* a Tick that takes a positive amount off and leaves a positive amount
C6_Witness ==
  /\ Handled("Tick")
  /\ pre.state = "Running"
  /\ 0 < SinceLastTick
  /\ SinceLastTick < pre.timer
  /\ timer = pre.timer - SinceLastTick

\* C7: a Tick processed while Running sets run state to Idle exactly when the
\* decremented remaining is zero; while it is greater than zero, also below
\* one second, the run state stays Running.
C7_IdleExactlyAtZero ==
  (Handled("Tick") /\ pre.state = "Running") =>
    /\ timer = 0 => state = "Idle"
    /\ timer > 0 => state = "Running"

\* C8: Pause while Idle is a no-op (run state stays Idle, mode and remaining
\* unchanged), and Paused is entered only by Pause from Running.
C8_PauseInIdleNoOp ==
  /\ (Handled("Pause") /\ pre.state = "Idle") =>
       (state = "Idle" /\ mode = pre.mode /\ timer = pre.timer)
  /\ (state = "Paused" /\ pre.state # "Paused") =>
       (Handled("Pause") /\ pre.state = "Running")

\* C9: Pause in any state leaves remaining, mode and last_tick unchanged; it
\* does not subtract the time elapsed since the last Tick.
C9_PauseFrame ==
  Handled("Pause") =>
    /\ timer = pre.timer
    /\ mode = pre.mode
    /\ last_tick = pre.last_tick

\* Pause of a running countdown some time after its last tick timestamp
C9_Witness ==
  /\ Handled("Pause")
  /\ pre.state = "Running"
  /\ SinceLastTick > 0
  /\ state = "Paused"

\* C10: Pause is idempotent: the second of two Pauses in a row leaves the full
\* state (mode, run state, remaining, last_tick) as the first one left it.
C10_PauseIdempotent ==
  (Handled("Pause") /\ pre.msg.kind = "Pause") =>
    /\ state = pre.state
    /\ mode = pre.mode
    /\ timer = pre.timer
    /\ last_tick = pre.last_tick

\* two Pauses in a row, the second one some time after the first
C10_Witness ==
  /\ Handled("Pause")
  /\ pre.msg.kind = "Pause"
  /\ pre.state = "Paused"
  /\ pre.timer < Canonical(pre.mode)
  /\ now > pre.last_tick

----------------------------------------------------------------------------
\* Reading a displayed text back: the number two digit characters stand for.
DigitValue(c) == CHOOSE k \in 0..9 : DigitChars[k + 1] = c
TwoDigits(text, i) == 10 * DigitValue(text[i]) + DigitValue(text[i + 1])
ZeroText == <<"0", "0", ":", "0", "0">>

\* C11: Resume, in whatever state it is applied, yields Running and
\* last_tick = now and leaves remaining and mode unchanged.
C11_ResumeFrame ==
  Handled("Resume") =>
    /\ state = "Running"
    /\ last_tick = now
    /\ timer = pre.timer
    /\ mode = pre.mode

\* Resume of a paused, partly elapsed countdown after some time
C11_Witness ==
  /\ Handled("Resume")
  /\ pre.state = "Paused"
  /\ 0 < pre.timer
  /\ pre.timer < Canonical(pre.mode)
  /\ now > pre.last_tick
  /\ timer = pre.timer

\* C12: time that passes while Paused or Idle is never subtracted: the first
\* Tick after a Start or Resume takes off only the time elapsed since that
\* Start or Resume (now is the clock at the last delivery), saturating at 0.
C12_PausedTimeNotSubtracted ==
  [][(msg.kind \in {"Start", "Resume"} /\ msg'.kind = "Tick") =>
       timer' = IF now' - now <= timer THEN timer - (now' - now) ELSE 0]_vars

\* the scenario: Tick +0.5s, Pause, Resume, Tick +10s leaves 1500s - 10.5s,
\* Running, although more wall-clock time than that has passed
C12_Witness ==
  /\ Handled("Tick")
  /\ pre.msg.kind = "Resume"
  /\ pre.state = "Running"
  /\ mode = "Work"
  /\ SinceLastTick = from_secs(10)
  /\ timer = from_secs(1500) - from_secs(10) - 1
  /\ state = "Running"
  /\ run_start = -1
  /\ now > WORK - timer

\* C13: the Tick that ends a countdown leaves mode alone and does not reload
\* remaining; afterwards Tick, Pause and Resume leave mode and remaining
\* unchanged; no message but SwitchMode changes mode.
C13_ExpiryKeepsRemaining ==
  /\ JustExpired => (mode = pre.mode /\ timer # Canonical(mode))
  /\ (expired_before /\ msg.kind \in {"Tick", "Pause", "Resume"}) =>
       (timer = pre.timer /\ mode = pre.mode)
  /\ msg.kind # "SwitchMode" => mode = pre.mode

\* C14: the Tick subscription is live exactly while Running, and the main
\* button is Start in Idle, Resume in Paused, Pause in Running, so that the
\* shell delivers each of these messages only in that run state.
C14_ShellWiring ==
  /\ (subscription = "Tick") <=> (state = "Running")
  /\ state = "Idle" =>
       start_or_pause_or_resume_button = [label |-> "Start", on_press |-> "Start"]
  /\ state = "Paused" =>
       start_or_pause_or_resume_button = [label |-> "Resume", on_press |-> "Resume"]
  /\ state = "Running" =>
       start_or_pause_or_resume_button = [label |-> "Pause", on_press |-> "Pause"]
  /\ Handled("Tick") => pre.state = "Running"
  /\ Handled("Start") => pre.state = "Idle"
  /\ Handled("Resume") => pre.state = "Paused"
  /\ Handled("Pause") => pre.state = "Running"

\* the Resume button was pressed while Paused and the subscription is live again
C14_Witness ==
  /\ Handled("Resume")
  /\ pre.state = "Paused"
  /\ subscription = "Tick"
  /\ start_or_pause_or_resume_button.label = "Pause"

\* C15: the displayed MM:SS has 0 <= MM <= 25, 0 <= SS <= 59 and
\* 60*MM + SS = whole seconds of remaining.
C15_DisplayExact ==
  LET text == timer_text(timer)
  IN  /\ Len(text) = 5
      /\ text[3] = ":"
      /\ TwoDigits(text, 1) <= 25
      /\ TwoDigits(text, 4) <= 59
      /\ 60 * TwoDigits(text, 1) + TwoDigits(text, 4) = as_secs(timer)

\* a countdown half a second old is displayed as 24:59
C15_Witness ==
  /\ Handled("Tick")
  /\ pre.state = "Running"
  /\ as_secs(timer) = 1499
  /\ timer_text(timer) = <<"2", "4", ":", "5", "9">>

\* C17: under shell-generated events every change of run state is one of
\* Idle-Start->Running, Running-Pause->Paused, Paused-Resume->Running,
\* any-Reset->Idle, any-SwitchMode->Idle, Running-Tick->Idle.
C17_ListedTransitions ==
  state # pre.state =>
    \/ pre.state = "Idle" /\ Handled("Start") /\ state = "Running"
    \/ pre.state = "Running" /\ Handled("Pause") /\ state = "Paused"
    \/ pre.state = "Paused" /\ Handled("Resume") /\ state = "Running"
    \/ Handled("Reset") /\ state = "Idle"
    \/ Handled("SwitchMode") /\ state = "Idle"
    \/ pre.state = "Running" /\ Handled("Tick") /\ state = "Idle"

\* Paused entered from a countdown that had been resumed before
C17_Witness ==
  /\ Handled("Pause")
  /\ pre.state = "Running"
  /\ pre.msg.kind = "Resume"
  /\ state = "Paused"

C20_DisplayByRunState ==
  /\ state \in {"Running", "Paused"} =>
       (as_secs(timer) >= 1 /\ timer_text(timer) # ZeroText)
  /\ state = "Idle" =>
       (timer_text(timer) = timer_text(Canonical(mode)) \/ timer_text(timer) = ZeroText)

\* Idle by expiry with a fraction of a second left, displayed as 00:00
C20_Witness ==
  /\ JustExpired
  /\ 0 < timer
  /\ timer < from_secs(1)
  /\ timer_text(timer) = ZeroText

\* C18: a Running countdown that no user event interrupts and that keeps
\* receiving Ticks a positive time apart eventually becomes Idle, and is then
\* displayed as 00:00.
C18_CountdownCompletes ==
  (state = "Running") ~> (state = "Idle" /\ timer_text(timer) = ZeroText)

\* expiry of a full ShortBreak countdown, reached tick by tick
C18_Witness ==
  /\ JustExpired
  /\ mode = "ShortBreak"
  /\ run_start >= 0
  /\ now - run_start >= from_secs(299)
  /\ nevents > from_secs(299)
  /\ timer_text(timer) = ZeroText

\* Both controllers handled a Tick at this instant, and no message since.
BothTicked == fine_sub.ticked_at = clock /\ coarse_sub.ticked_at = clock

SameObservation ==
  /\ fine.state = coarse.state
  /\ timer_text(fine.timer) = timer_text(coarse.timer)

\* C16: two controllers given the same user messages at the same instants,
\* one ticked with a fine and one with a coarser period, have the same run
\* state and the same displayed remaining whenever both have just handled a
\* Tick, also in runs with Pause and Resume.
C16_CadenceUnobservable == BothTicked => SameObservation

\* C16 as amended: the same, as long as no Pause or Resume was applied since
\* remaining was last loaded by Start, Reset or SwitchMode.
C16_CadenceUnobservableUninterrupted == (BothTicked /\ reloaded) => SameObservation

\* a countdown started in the compared run, at an instant where the coarse
\* controller has handled fewer Ticks than the fine one
C16_Witness ==
  /\ BothTicked
  /\ reloaded
  /\ nuser > 0
  /\ subscribed(fine)
  /\ fine.timer < Canonical(fine.mode)
  /\ fine.timer > LateRemaining
  /\ fine.timer = coarse.timer
====
